---- MODULE Spec2Model ----
(***************************************************************************)
(* Countdown: the Home page of jgarr16/countdown.                           *)
(*                                                                         *)
(* client/src/pages/home.tsx holds two variants of the page: the Firebase  *)
(* variant (lines 1-272) and the Gist ("GitHub") variant (lines 274-870).  *)
(* A Date is modelled by its time value in whole hours since the epoch     *)
(* (UTC); an ISO string by its UTC day number and UTC hour of day.  The    *)
(* browser's local time zone is UtcOffset hours behind UTC.                *)
(***************************************************************************)
EXTENDS Integers, Sequences, FiniteSets, TLC

\* ------------------------------------------------------------------ bounds
\* First local calendar day of the modelled window: 19880 = Thu 2024-06-06.
FirstDay == 19880
\* Number of local calendar days in the window (covers one weekend).
NumDays == 5
\* The browser's zone: local midnight is UtcOffset:00 UTC.
UtcOffset == 5
\* The zone of another device that writes the shared remote document.
OtherUtcOffset == 8
\* Longest excluded-dates list the handlers are driven to.
MaxExcluded == 2
\* The remote loads in flight are counted up to this number.
MaxLoads == 3
\* Most remote saves that may be in flight at once.
MaxSaves == 2
\* A task is added only to a list shorter than this; a stored list may hold one
\* task more.
MaxTasks == 2
\* Most gists the saves are driven to create.
MaxGists == 2

\* ------------------------------------------------------------------ dates
HoursPerDay == 24
END_OF_DAY_HOUR == 17

Undefined == [kind |-> "undefined"]
DateOf(t) == [kind |-> "Date", time |-> t]
StringOf(day, hour) == [kind |-> "String", day |-> day, hour |-> hour]

\* Date.prototype.getTime, in hours.
getTime(d) == d.time

\* Date.prototype.toISOString: the UTC calendar day and the UTC time of day.
toISOString(d) == StringOf(d.time \div HoursPerDay, d.time % HoursPerDay)

\* new Date(x) for a Date or an ISO string.
newDate(x) ==
  IF x.kind = "Date" THEN DateOf(x.time)
  ELSE DateOf(x.day * HoursPerDay + x.hour)

\* Date.prototype.getHours: the local hour of day.
getHours(d) == (d.time - UtcOffset) % HoursPerDay

\* The local calendar day number of a Date.
localDay(d) == (d.time - UtcOffset) \div HoursPerDay

\* date-fns startOfDay: local midnight of the Date's local calendar day.
startOfDay(d) == DateOf(d.time - getHours(d))

\* date-fns addDays.
addDays(d, n) == DateOf(d.time + n * HoursPerDay)

\* Date.prototype.getDay: 0 = Sunday .. 6 = Saturday (day 0 was a Thursday).
getDay(d) == (localDay(d) + 4) % 7
isSaturday(d) == getDay(d) = 6
isSunday(d) == getDay(d) = 0

\* date-fns differenceInCalendarDays(left, right).
differenceInCalendarDays(left, right) == localDay(left) - localDay(right)

Max(a, b) == IF a >= b THEN a ELSE b

\* Local midnight of local calendar day n, as a Date.
LocalMidnight(n) == DateOf(n * HoursPerDay + UtcOffset)

Days == FirstDay .. (FirstDay + NumDays - 1)

\* date-fns isSameDay.
isSameDay(a, b) == localDay(a) = localDay(b)

\* ------------------------------------------------------------------ values
Absent == [kind |-> "absent"]
UndefinedText == [kind |-> "undefinedText"]
\* An item whose text JSON.parse rejects, and a localStorage call that threw.
Unparsable == [kind |-> "unparsable"]
Throws == [kind |-> "throws"]
JsonOf(v) == [kind |-> "json", value |-> v]

\* An ExcludedDate {date, comment?}; a missing comment is Undefined.
ExcludedDate(iso, comment) == [date |-> iso, comment |-> comment]
Comment(text) == [kind |-> "Text", text |-> text]

\* The elements of an array.
Range(s) == {s[i] : i \in 1 .. Len(s)}

\* ------------------------------------------------------------------ state
VARIABLES
  variant,          \* "firebase" (home.tsx 1-272) or "github" (home.tsx 274-870)
  now,              \* the wall clock: what new Date() returns
  mounted,          \* the Home component is mounted
  today,            \* useState today / effectiveToday, as last set
  view,             \* what the latest render of Home showed and its closures hold
  targetDate,       \* useLocalStorage "daycount-target": Undefined, a Date or a string
  excludedDates,    \* useLocalStorage "daycount-excluded"
  tasks,            \* useLocalStorage "daycount-tasks": as last set, or as the render left it
  storage,          \* window.localStorage: the three items
  syncStatus,       \* syncStatus.state (Firebase variant), as last set
  hasLoadedRemote,  \* hasLoadedRemote (Firebase variant)
  loads,            \* remote loads in flight (MaxLoads: that many or more)
  timeoutAt,        \* the one-shot 5 PM timer: Undefined or the Date it is due
  intervalOn,       \* the one-minute interval is registered
  lastToday,        \* history: today before its latest change, Undefined if none
  lastCheckAt,      \* history: the clock when today last changed
  toggles,          \* history: the latest consecutive exclusion toggles
  githubToken,      \* githubToken (GitHub variant): the state holds a token
  saveTimers,       \* the pending debounced save timers, each with its closure
  saves,            \* the remote saves in flight, each with its payload
  timers,           \* the browser's live clock timers: intervals and one-shots
  hist,             \* history: unsaved changes, latest save outcome, rendered status
  gistId,           \* localStorage "countdown-gist-id": 0 when none, else the gist's number
  remote,           \* the documents this page's saves wrote: the database's, or one per gist
  fault,            \* window.localStorage: "none", every call throws ("denied"), setItem throws ("full")
  hasError          \* ErrorBoundary.state.hasError: a render has thrown

vars == << variant, now, mounted, today, view, targetDate, excludedDates, tasks,
           storage, syncStatus, hasLoadedRemote, loads, timeoutAt, intervalOn,
           lastToday, lastCheckAt, toggles, githubToken,
           saveTimers, saves, timers, hist, gistId, remote, fault, hasError >>

\* ------------------------------------------------------------------ 5 PM logic
\* Mutant: the cutoff hour itself still counts as today.
getEffectiveTodayStrict(n) ==
  IF getHours(n) > END_OF_DAY_HOUR
  THEN addDays(startOfDay(n), 1)
  ELSE startOfDay(n)

\* Mutant: the two branches swapped.
getEffectiveTodayFlipped(n) ==
  IF getHours(n) >= END_OF_DAY_HOUR
  THEN startOfDay(n)
  ELSE addDays(startOfDay(n), 1)

\* getEffectiveToday at clock value n; startOfToday() is startOfDay(new Date()).
getEffectiveToday(n) ==
  IF getHours(n) >= END_OF_DAY_HOUR
  THEN addDays(startOfDay(n), 1)
  ELSE startOfDay(n)

\* ------------------------------------------------------------------ computed
\* Mutant: the count leaves today out.
calendarDaysRemainingExclusive(target, tdy) ==
  IF target = Undefined THEN 0
  ELSE Max(0, differenceInCalendarDays(newDate(target), tdy))

\* Mutant: the count is not clamped at 0.
calendarDaysRemainingUnclamped(target, tdy) ==
  IF target = Undefined THEN 0
  ELSE differenceInCalendarDays(newDate(target), tdy) + 1

\* Firebase variant: calendarDaysRemaining.
calendarDaysRemaining(target, tdy) ==
  IF target = Undefined THEN 0
  ELSE Max(0, differenceInCalendarDays(newDate(target), tdy) + 1)

\* The loop of workingDaysRemaining / calculateWorkingDays, from i to diff.
RECURSIVE workingDaysLoop(_, _, _, _)
workingDaysLoop(i, diff, tdy, excludedSet) ==
  IF i > diff THEN 0
  ELSE LET d == addDays(tdy, i)
           working == ~isSaturday(d) /\ ~isSunday(d) /\ toISOString(d) \notin excludedSet
       IN  (IF working THEN 1 ELSE 0) + workingDaysLoop(i + 1, diff, tdy, excludedSet)

\* Mutant: the loop stops before the target day.
workingDaysRemainingExclusive(target, tdy, excluded) ==
  IF target = Undefined THEN 0
  ELSE LET diff == differenceInCalendarDays(newDate(target), tdy)
           excludedSet == {e.date : e \in Range(excluded)}
       IN  workingDaysLoop(0, diff - 1, tdy, excludedSet)

\* Mutant: the loop runs one day past the target day.
workingDaysRemainingOvershoot(target, tdy, excluded) ==
  IF target = Undefined THEN 0
  ELSE LET diff == differenceInCalendarDays(newDate(target), tdy)
           excludedSet == {e.date : e \in Range(excluded)}
       IN  workingDaysLoop(0, diff + 1, tdy, excludedSet)

\* Firebase variant: workingDaysRemaining.
workingDaysRemaining(target, tdy, excluded) ==
  IF target = Undefined THEN 0
  ELSE LET diff == differenceInCalendarDays(newDate(target), tdy)
           excludedSet == {e.date : e \in Range(excluded)}
       IN  workingDaysLoop(0, diff, tdy, excludedSet)

\* GitHub variant: calendarDaysRemaining (not clamped where it is computed).
calendarDaysRemainingGitHub(target, tdy) ==
  IF target # Undefined
  THEN differenceInCalendarDays(newDate(target), tdy) + 1
  ELSE 0

\* GitHub variant: calculateWorkingDays.
calculateWorkingDays(target, tdy, excluded) ==
  IF target = Undefined \/ calendarDaysRemainingGitHub(target, tdy) < 0 THEN 0
  ELSE LET daysDiff == differenceInCalendarDays(newDate(target), tdy)
           excludedISOStrings == {e.date : e \in Range(excluded)}
       IN  workingDaysLoop(0, daysDiff, tdy, excludedISOStrings)

\* The dash the GitHub variant renders in place of a number.
Dash == [kind |-> "Text", text |-> "dash"]

\* GitHub variant: the two numbers as rendered: Math.max(0, ...) when a target
\* date is set (safeTargetDate), a dash when none is.
calendarDaysShownGitHub(target, tdy) ==
  IF target # Undefined THEN Max(0, calendarDaysRemainingGitHub(target, tdy)) ELSE Dash
workingDaysShownGitHub(target, tdy, excluded) ==
  IF target # Undefined THEN Max(0, calculateWorkingDays(target, tdy, excluded)) ELSE Dash

\* The computed values of the running variant: those of the latest render of
\* Home, from the target date, today and the excluded dates of that render.
CalendarDays ==
  IF variant = "firebase" THEN calendarDaysRemaining(view.targetDate, view.today)
  ELSE calendarDaysRemainingGitHub(view.targetDate, view.today)
WorkingDays ==
  IF variant = "firebase"
  THEN workingDaysRemaining(view.targetDate, view.today, view.excludedDates)
  ELSE calculateWorkingDays(view.targetDate, view.today, view.excludedDates)

\* ------------------------------------------------------------------ useLocalStorage
\* JSON.stringify of the target date: a Date serialises through toJSON to its ISO
\* string, a string stays, and undefined yields the text "undefined".
stringifyTarget(v) ==
  IF v.kind = "Date" THEN toISOString(v)
  ELSE IF v.kind = "String" THEN v
  ELSE UndefinedText

\* useLocalStorage's initial state for "daycount-target": the stored item parsed,
\* initialValue when the item is missing or JSON.parse throws.
readTarget(item) ==
  IF item = Absent THEN Undefined
  ELSE IF item \in {UndefinedText, Unparsable, Throws} THEN Undefined
  ELSE item

\* useLocalStorage's initial state for "daycount-excluded" and "daycount-tasks"
\* (Firebase variant), and for "daycount-tasks" (GitHub variant).
readList(item) ==
  IF item = Absent THEN << >>
  ELSE IF item \in {Unparsable, Throws} THEN << >>
  ELSE item.value

\* GitHub variant: useLocalStorage's initial state for "daycount-excluded"; a
\* stored array whose first element is a string (typeof parsed[0] === 'string')
\* is migrated to [{date: d}].
readExcludedMigrating(item) ==
  IF item = Absent THEN << >>
  ELSE IF item \in {Unparsable, Throws} THEN << >>
  ELSE IF /\ item.value # << >>
          /\ "kind" \in DOMAIN item.value[1]
          /\ item.value[1].kind = "String"
       THEN [i \in 1 .. Len(item.value) |-> ExcludedDate(item.value[i], Undefined)]
       ELSE item.value

\* window.localStorage.getItem: the item, or a throw when storage is denied.
getItem(f, item) == IF f = "denied" THEN Throws ELSE item

\* window.localStorage.setItem inside setValue's try: the item afterwards.  A
\* throw (storage denied, or full) is caught and leaves the item as it was.
setItem(f, item, text) == IF f = "none" THEN text ELSE item

\* GitHub variant: getGitHubToken in the initialiser of the githubToken state
\* calls getStoredValue outside any try, so a throw leaves the render.  The token
\* is held nowhere ("none"), in localStorage ("local") or in the cookie only
\* ("cookie"): getItem throws when storage is denied, and with the token found
\* in the cookie only getStoredValue copies it with setItem, which throws when
\* storage is denied or full.
getGitHubToken(f, place) ==
  IF f = "denied" \/ (f = "full" /\ place = "cookie") THEN Throws
  ELSE [kind |-> "token", set |-> place # "none"]

\* ------------------------------------------------------------------ handlers
\* Mutant: the entry is never found, so the date is appended every time.
handleToggleExclusionAppends(prev, date) ==
  Append(prev, ExcludedDate(toISOString(date), Undefined))

\* Mutant: the entry is keyed by the UTC midnight of the day, not by the instant.
handleToggleExclusionUtcKey(prev, date) ==
  LET iso == StringOf(localDay(date), 0)
  IN  IF \E i \in 1 .. Len(prev) : prev[i].date = iso
      THEN SelectSeq(prev, LAMBDA d : d.date # iso)
      ELSE Append(prev, ExcludedDate(iso, Undefined))

\* Firebase variant: the updater handleToggleExclusion passes to setExcludedDates.
handleToggleExclusion(prev, date) ==
  LET iso == toISOString(date)
  IN  IF \E i \in 1 .. Len(prev) : prev[i].date = iso
      THEN SelectSeq(prev, LAMBDA d : d.date # iso)
      ELSE Append(prev, ExcludedDate(iso, Undefined))

\* GitHub variant: toggleExclusion.
toggleExclusion(excluded, date) ==
  LET isoDate == toISOString(date)
  IN  IF \E i \in 1 .. Len(excluded) : excluded[i].date = isoDate
      THEN SelectSeq(excluded, LAMBDA d : d.date # isoDate)
      ELSE excluded \o << ExcludedDate(isoDate, Undefined) >>

\* Mutant: the comment is written to every entry, whatever its date.
handleUpdateCommentAll(prev, iso, comment) ==
  [i \in 1 .. Len(prev) |-> [prev[i] EXCEPT !.comment = comment]]

\* Firebase variant: the updater handleUpdateComment passes to setExcludedDates.
handleUpdateComment(prev, iso, comment) ==
  [i \in 1 .. Len(prev) |->
     IF prev[i].date = iso THEN [prev[i] EXCEPT !.comment = comment] ELSE prev[i]]

\* GitHub variant: updateExclusionComment.
updateExclusionComment(excluded, isoDate, comment) ==
  [i \in 1 .. Len(excluded) |->
     IF excluded[i].date = isoDate THEN [excluded[i] EXCEPT !.comment = comment]
     ELSE excluded[i]]

\* ------------------------------------------------------------------ inputs
\* The days the calendars offer: local midnights, those before the today of the
\* latest render disabled.
CalendarDates == {LocalMidnight(n) : n \in Days}
Selectable(date) == ~(getTime(date) < getTime(view.today))

\* ISO strings this browser writes for the days of the window, and those a device
\* in the other zone writes to the shared remote document.
LocalIsos == {toISOString(LocalMidnight(n)) : n \in Days}
OtherIsos == {toISOString(DateOf(n * HoursPerDay + OtherUtcOffset)) : n \in {FirstDay + 1}}

\* What earlier sessions may have left in localStorage.
StoredTargets == {Absent, UndefinedText, toISOString(LocalMidnight(FirstDay))}
StoredExcluded ==
  {Absent, JsonOf(<< >>),
   JsonOf(<< ExcludedDate(toISOString(LocalMidnight(FirstDay + 1)), Undefined) >>)}

\* The item an earlier version of the GitHub variant wrote: an array of strings.
LegacyExcluded == JsonOf(<< toISOString(LocalMidnight(FirstDay + 2)) >>)

CommentTexts == {Comment("Vacation")}

\* The documents a remote load may return: AppData as the database holds it
\* (a missing or empty property comes back undefined), with a target date or
\* with a list of excluded dates.
RemoteTargets == {Undefined} \cup OtherIsos
ArrayOf(list) == [kind |-> "Array", items |-> list]
RemoteExcluded ==
  {Undefined, ArrayOf(<< >>)} \cup {ArrayOf(<< ExcludedDate(iso, Undefined) >>) : iso \in OtherIsos}
RemoteDocs ==
  {d \in [targetDate : RemoteTargets, excludedDates : RemoteExcluded, tasks : {Undefined}] :
     (d.targetDate = Undefined) # (d.excludedDates = Undefined)}
Null == [kind |-> "null"]

\* The instants at which the page is opened.
MountTimes ==
  {DateOf(getTime(LocalMidnight(n)) + h) :
     n \in {FirstDay, FirstDay + 1}, h \in {END_OF_DAY_HOUR - 1, END_OF_DAY_HOUR}}

clockVars == << now, today, timeoutAt, intervalOn, lastToday, lastCheckAt, timers >>
cloudVars == << hasLoadedRemote, githubToken, saves, gistId, remote >>

\* ------------------------------------------------------------------ timers
\* setMilliseconds(setSeconds(setMinutes(setHours(d, END_OF_DAY_HOUR), 0), 0), 0)
\* for a local midnight d.
setHours5PM(d) == DateOf(getTime(startOfDay(d)) + END_OF_DAY_HOUR)

\* GitHub variant: next5PM as the timer effect computes it at clock value n.
next5PM(n) ==
  IF getHours(n) >= END_OF_DAY_HOUR
  THEN setHours5PM(addDays(startOfDay(n), 1))
  ELSE setHours5PM(startOfDay(n))

\* The timer effect's body: the one-shot timer it arms (GitHub variant only).
armTimeout(v, n) == IF v = "github" THEN next5PM(n) ELSE Undefined

\* The browser's timer table once a one-shot timer has run: it is gone.
firedTimers(t, timeoutRan) ==
  [t EXCEPT !.timeout = IF timeoutRan THEN @ - 1 ELSE @]

\* Mutant: the cleanup leaves the interval registered.
timerCleanupKeepsInterval(t, timeoutPending) ==
  [interval |-> t.interval,
   timeout |-> IF timeoutPending THEN t.timeout - 1 ELSE t.timeout]

\* The timer effect's cleanup: clearInterval of the interval of its previous run
\* and, in the GitHub variant, clearTimeout of its one-shot timer if still pending.
timerCleanup(t, timeoutPending) ==
  [interval |-> t.interval - 1,
   timeout |-> IF timeoutPending THEN t.timeout - 1 ELSE t.timeout]

\* The timer effect's body: setInterval and, in the GitHub variant, setTimeout.
timerEffect(v, t) ==
  [interval |-> t.interval + 1,
   timeout |-> IF v = "github" THEN t.timeout + 1 ELSE t.timeout]

\* ------------------------------------------------------------------ sync effect
\* What a render's sync effect closes over: the timer callback reads these.
Closure(t, e, k) == [targetDate |-> t, excludedDates |-> e, tasks |-> k]

\* A thrown TypeError.
Thrown == [kind |-> "TypeError"]

\* Firebase variant: the argument of saveToFirebase; a value that is not a Date
\* (a string parsed from localStorage) is sent as undefined.
firebaseTaskPayload(t) ==
  [t EXCEPT !.dueDate = IF t.dueDate.kind = "Date" THEN toISOString(t.dueDate) ELSE Undefined]
firebasePayload(c) ==
  [targetDate |-> IF c.targetDate.kind = "Date" THEN toISOString(c.targetDate) ELSE Undefined,
   excludedDates |-> ArrayOf(c.excludedDates),
   tasks |-> ArrayOf([i \in 1 .. Len(c.tasks) |-> firebaseTaskPayload(c.tasks[i])])]

\* GitHub variant: the argument of saveToGitHub; x?.toISOString() is undefined
\* for undefined, the ISO string for a Date, and throws for a string.
githubTaskPayload(t) ==
  [t EXCEPT !.dueDate = IF t.dueDate.kind = "Date" THEN toISOString(t.dueDate) ELSE Undefined]
githubPayload(c) ==
  IF \/ c.targetDate.kind = "String"
     \/ \E i \in 1 .. Len(c.tasks) : c.tasks[i].dueDate.kind = "String"
  THEN Thrown
  ELSE [targetDate |-> IF c.targetDate.kind = "Date" THEN toISOString(c.targetDate)
                       ELSE Undefined,
        excludedDates |-> ArrayOf(c.excludedDates),
        tasks |-> ArrayOf([i \in 1 .. Len(c.tasks) |-> githubTaskPayload(c.tasks[i])])]

\* The payload the timer callback of the running variant builds from its closure.
SavePayload(v, c) == IF v = "firebase" THEN firebasePayload(c) ELSE githubPayload(c)

\* The sync effect's guard: hasLoadedRemote (Firebase), githubToken (GitHub).
SyncEnabled(v, loaded, token) == IF v = "firebase" THEN loaded ELSE token

\* The sync effect's cleanup: clearTimeout of the timer its previous run set.
clearSaveTimer(pending) ==
  IF pending = << >> THEN << >> ELSE SubSeq(pending, 1, Len(pending) - 1)

\* Mutant: the effect has no cleanup.
syncEffectLeaks(pending, enabled, c) ==
  IF enabled THEN Append(pending, c) ELSE pending

\* The sync effect re-run after a render that changed one of its dependencies:
\* the pending timers after the cleanup and the new setTimeout.
syncEffect(pending, enabled, c) ==
  IF enabled THEN Append(clearSaveTimer(pending), c) ELSE clearSaveTimer(pending)

\* ------------------------------------------------------------------ init effect
\* Firebase variant: the init effect runs after every render of Home, because its
\* dependency applyRemoteData is rebuilt in every render from the setValue
\* functions useLocalStorage returns.  Each run sets syncStatus to 'loading' and
\* calls loadFromFirebase().  The GitHub variant loads in its mount effect only.
initEffectStatus(v, status) == IF v = "firebase" THEN "loading" ELSE status
initEffectLoads(v, inFlight) ==
  IF v = "firebase" /\ inFlight < MaxLoads THEN inFlight + 1 ELSE inFlight

\* GitHub variant: the comparator of tasks.sort in the JSX of Home: a task with
\* no due date goes after one with a due date, two due dates go by their time.
taskOrder(a, b) ==
  IF a.dueDate = Undefined /\ b.dueDate = Undefined THEN 0
  ELSE IF a.dueDate = Undefined THEN 1
  ELSE IF b.dueDate = Undefined THEN -1
  ELSE getTime(newDate(a.dueDate)) - getTime(newDate(b.dueDate))

\* Array.prototype.sort is stable: t goes after the tasks that do not order after it.
sortInsert(sorted, t) ==
  LET k == Cardinality({i \in 1 .. Len(sorted) : taskOrder(sorted[i], t) <= 0})
  IN  SubSeq(sorted, 1, k) \o << t >> \o SubSeq(sorted, k + 1, Len(sorted))
RECURSIVE sortTasks(_)
sortTasks(list) ==
  IF list = << >> THEN << >>
  ELSE sortInsert(sortTasks(SubSeq(list, 1, Len(list) - 1)), list[Len(list)])

\* The tasks array once Home has rendered it: the GitHub variant sorts the state
\* array in place while it builds the task list (the array the handlers, the
\* sync effect and its timer callback close over); the Firebase variant's
\* TaskList sorts a copy.
renderTasks(v, list) == IF v = "github" THEN sortTasks(list) ELSE list

\* Home renders targetDate t, excludedDates e and tasks k, with hasLoadedRemote
\* loaded and githubToken token, and the effects of the render run.  view is what
\* the render leaves for its handlers and callbacks to close over; its sync field
\* is set by a state update made outside an event handler that changed a
\* dependency of the sync effect, and deps tells that the update this render
\* belongs to changed one.  The timer effect depends on today.  The tasks state
\* is the array as the render leaves it.
Effects(t, e, k, loaded, token, deps) ==
  /\ tasks' = renderTasks(variant, k)
  /\ view' = [targetDate |-> t, excludedDates |-> e, tasks |-> tasks', today |-> today,
              sync |-> FALSE]
  /\ saveTimers' = IF deps \/ view.sync
                   THEN syncEffect(saveTimers, SyncEnabled(variant, loaded, token),
                                   Closure(t, e, tasks'))
                   ELSE saveTimers
  /\ IF view.today # today
     THEN /\ intervalOn' = TRUE
          /\ timeoutAt' = armTimeout(variant, now)
          /\ timers' = timerEffect(variant, timerCleanup(timers, timeoutAt # Undefined))
     ELSE UNCHANGED << intervalOn, timeoutAt, timers >>
  /\ syncStatus' = initEffectStatus(variant, syncStatus)
  /\ loads' = initEffectLoads(variant, loads)

\* ------------------------------------------------------------------ initial state
NoToggles == [n |-> 0]
\* changed: the state has changed and the save timer of the change has not run;
\* failed: a save has failed; created: gists created since the token was stored;
\* rendered: syncStatus.state as the latest render showed it, before its effects.
NoHistory ==
  [changed |-> FALSE, lastSave |-> "none", failed |-> FALSE, created |-> 0,
   rendered |-> "idle"]

\* The content of a gist that an earlier session created.
Earlier == [kind |-> "earlier"]

\* The state after the first render of Home and, when it did not throw, the
\* effects of that render: at a clock value in times, with localStorage holding
\* items from targets, excls and taskItems, a GitHub token (and the id of its
\* gist) held as tokens allows, and localStorage behaving as in faults.  A render
\* that throws is never committed, so none of its effects runs and the error
\* screen replaces Home: the GitHub variant throws when the token cannot be
\* read, the Firebase variant's exclusion calendar when it formats an entry of
\* the list that is a string, having no date property.
InitFaulty(times, targets, excls, taskItems, tokens, faults) ==
  /\ variant \in {"firebase", "github"}
  /\ fault \in faults
  /\ now \in times
  /\ today = getEffectiveToday(now)
  /\ storage \in [target : targets, excluded : excls, tasks : taskItems]
  /\ LET read == readList(getItem(fault, storage.excluded))
         throws == \E i \in 1 .. Len(read) : "kind" \in DOMAIN read[i]
     IN  IF variant = "firebase" /\ throws
         THEN /\ hasError = TRUE
              /\ githubToken = FALSE
              /\ targetDate = Undefined
              /\ excludedDates = << >>
              /\ tasks = << >>
         ELSE /\ targetDate = readTarget(getItem(fault, storage.target))
              /\ excludedDates =
                   IF variant = "github"
                   THEN readExcludedMigrating(getItem(fault, storage.excluded))
                   ELSE read
              /\ tasks = renderTasks(variant, readList(getItem(fault, storage.tasks)))
              /\ \E stored \in (IF variant = "github" THEN tokens ELSE {"none"}) :
                   LET token == getGitHubToken(fault, stored)
                   IN  /\ hasError = (variant = "github" /\ token = Throws)
                       /\ githubToken = IF token = Throws THEN FALSE ELSE token.set
  /\ hasLoadedRemote = FALSE
  /\ mounted = ~hasError
  /\ view = [targetDate |-> targetDate, excludedDates |-> excludedDates, tasks |-> tasks,
             today |-> today, sync |-> FALSE]
  /\ gistId = IF githubToken THEN 1 ELSE 0
  /\ remote = IF githubToken THEN << Earlier >> ELSE << >>
  /\ syncStatus = IF mounted THEN initEffectStatus(variant, "idle") ELSE "idle"
  /\ loads = IF ~mounted THEN 0
             ELSE IF variant = "firebase" THEN initEffectLoads(variant, 0)
             ELSE IF githubToken THEN 1 ELSE 0
  /\ saveTimers = IF mounted
                  THEN syncEffect(<< >>, SyncEnabled(variant, hasLoadedRemote, githubToken),
                                  Closure(targetDate, excludedDates, tasks))
                  ELSE << >>
  /\ saves = << >>
  /\ timeoutAt = IF mounted THEN armTimeout(variant, now) ELSE Undefined
  /\ intervalOn = mounted
  /\ timers = [interval |-> IF mounted THEN 1 ELSE 0,
               timeout |-> IF mounted /\ variant = "github" THEN 1 ELSE 0]
  /\ lastToday = Undefined
  /\ lastCheckAt = Undefined
  /\ toggles = NoToggles
  /\ hist = [NoHistory EXCEPT !.created = gistId]

\* The same with a localStorage that works.
InitAll(times, targets, excls, taskItems, tokens) ==
  InitFaulty(times, targets, excls, taskItems, tokens, {"none"})

\* The same with no stored tasks and no GitHub token.
InitWith(times, targets, excls) == InitAll(times, targets, excls, {Absent}, {"none"})

Init ==
  InitWith({t \in MountTimes : getEffectiveToday(t) # LocalMidnight(FirstDay + 1)},
           StoredTargets, StoredExcluded)

\* ------------------------------------------------------------------ user actions
\* An event handler reads the values of the latest render (view) and calls a
\* setter of targetDate, excludedDates or tasks with a new value; the render that
\* follows in the same task shows the states as they then are, the updates of
\* earlier continuations included, and the sync effect runs again.
AfterChange(t, e, k) ==
  /\ Effects(t, e, k, hasLoadedRemote, githubToken, TRUE)
  /\ hist' = [[hist EXCEPT !.rendered = syncStatus] EXCEPT !.changed = TRUE]

\* The target-date calendar (mode "single"): a click on the selected day clears
\* the selection, any other enabled day selects it; onSelect is setTargetDate.
SelectTargetDate(date) ==
  /\ mounted
  /\ date \in CalendarDates
  /\ Selectable(date)
  /\ LET value == IF view.targetDate # Undefined
                     /\ isSameDay(newDate(view.targetDate), date)
                  THEN Undefined ELSE date
     IN  /\ targetDate' = value
         /\ storage' = [storage EXCEPT !.target = setItem(fault, @, stringifyTarget(value))]
         /\ AfterChange(value, excludedDates, tasks)
  /\ toggles' = NoToggles
  /\ UNCHANGED << variant, fault, hasError, mounted, excludedDates, now, today, lastToday,
                  lastCheckAt, cloudVars >>

\* The dates the page passes to the toggle: an enabled day of the exclusion
\* calendar, or new Date(item.date) from the trash button of a listed entry.
ToggleDates ==
  {d \in CalendarDates : Selectable(d)}
    \cup {newDate(e.date) : e \in Range(view.excludedDates)}

\* handleToggleExclusion / toggleExclusion through setExcludedDates.
ToggleExclusion(date) ==
  /\ mounted
  /\ date \in ToggleDates
  /\ LET next == IF variant = "firebase"
                 THEN handleToggleExclusion(view.excludedDates, date)
                 ELSE toggleExclusion(view.excludedDates, date)
     IN  /\ Len(next) <= MaxExcluded
         /\ excludedDates' = next
         /\ storage' = [storage EXCEPT !.excluded = setItem(fault, @, JsonOf(next))]
         /\ AfterChange(targetDate, next, tasks)
  /\ toggles' = IF toggles.n >= 1 /\ toggles.date = date
                THEN [n |-> 2, date |-> date, before |-> toggles.last,
                      last |-> view.excludedDates]
                ELSE [n |-> 1, date |-> date, last |-> view.excludedDates]
  /\ UNCHANGED << variant, fault, hasError, mounted, targetDate, now, today, lastToday,
                  lastCheckAt, cloudVars >>

\* handleUpdateComment / updateExclusionComment from the comment box of an entry.
UpdateComment(iso, comment) ==
  /\ mounted
  /\ iso \in {e.date : e \in Range(view.excludedDates)}
  /\ LET next == IF variant = "firebase"
                 THEN handleUpdateComment(view.excludedDates, iso, comment)
                 ELSE updateExclusionComment(view.excludedDates, iso, comment)
     IN  /\ excludedDates' = next
         /\ storage' = [storage EXCEPT !.excluded = setItem(fault, @, JsonOf(next))]
         /\ AfterChange(targetDate, next, tasks)
  /\ toggles' = NoToggles
  /\ UNCHANGED << variant, fault, hasError, mounted, targetDate, now, today, lastToday,
                  lastCheckAt, cloudVars >>

\* ------------------------------------------------------------------ remote load
\* applyRemoteData: the state and the localStorage items after applying data.
applyTarget(data, old) ==
  IF data.targetDate # Undefined THEN newDate(data.targetDate) ELSE old
applyExcluded(data, old) ==
  IF data.excludedDates # Undefined THEN data.excludedDates.items ELSE old
reviveTask(t) ==
  [t EXCEPT !.dueDate = IF t.dueDate # Undefined THEN newDate(t.dueDate) ELSE Undefined]

\* Mutant: the tasks of the document are added to the list instead of replacing it.
applyTasksMerges(data, old) ==
  IF data.tasks # Undefined
  THEN old \o [i \in 1 .. Len(data.tasks.items) |-> reviveTask(data.tasks.items[i])]
  ELSE old

applyTasks(data, old) ==
  IF data.tasks # Undefined
  THEN [i \in 1 .. Len(data.tasks.items) |-> reviveTask(data.tasks.items[i])]
  ELSE old

\* JSON.stringify of the task list: each due Date becomes its ISO string.
stringifyTask(t) ==
  [t EXCEPT !.dueDate = IF t.dueDate.kind = "Date" THEN toISOString(t.dueDate) ELSE t.dueDate]
stringifyTasks(list) == JsonOf([i \in 1 .. Len(list) |-> stringifyTask(list[i])])

\* ------------------------------------------------------------------ reset
\* Mutant: the confirmation's answer is ignored.
handleResetUnconfirmed(confirmed, c) == Closure(Undefined, << >>, << >>)

\* Firebase variant: handleReset; the three values after it, confirmed being the
\* answer of confirm().
handleReset(confirmed, c) ==
  IF confirmed THEN Closure(Undefined, << >>, << >>) ELSE c

\* GitHub variant: resetAll.
resetAll(confirmed, c) ==
  IF confirmed THEN Closure(Undefined, << >>, << >>) ELSE c

\* The reset control, offered while the latest render has a target date; each of
\* the three setters stores its value in localStorage.
Reset(confirmed) ==
  /\ mounted
  /\ view.targetDate # Undefined
  /\ LET c == Closure(targetDate, excludedDates, tasks)
         next == IF variant = "firebase" THEN handleReset(confirmed, c)
                 ELSE resetAll(confirmed, c)
     IN  IF confirmed
         THEN /\ targetDate' = next.targetDate
              /\ excludedDates' = next.excludedDates
              /\ storage' =
                   [target |-> setItem(fault, storage.target,
                                       stringifyTarget(next.targetDate)),
                    excluded |-> setItem(fault, storage.excluded,
                                         JsonOf(next.excludedDates)),
                    tasks |-> setItem(fault, storage.tasks, stringifyTasks(next.tasks))]
              /\ AfterChange(next.targetDate, next.excludedDates, next.tasks)
         ELSE /\ targetDate' = next.targetDate
              /\ excludedDates' = next.excludedDates
              /\ tasks' = next.tasks
              /\ UNCHANGED << storage, saveTimers, hist, syncStatus, loads, view,
                              timeoutAt, intervalOn, timers >>
  /\ toggles' = NoToggles
  /\ UNCHANGED << variant, fault, hasError, mounted, now, today, lastToday, lastCheckAt, cloudVars >>

\* ------------------------------------------------------------------ tasks
\* A Task {id, text, completed, dueDate?}; text is its sequence of characters.
Task(id, text, completed, dueDate) ==
  [id |-> id, text |-> text, completed |-> completed, dueDate |-> dueDate]

\* String.prototype.trim on a text of blanks and letters.
RECURSIVE trimStart(_)
trimStart(text) ==
  IF text # << >> /\ Head(text) = " " THEN trimStart(Tail(text)) ELSE text
RECURSIVE trimEnd(_)
trimEnd(text) ==
  IF text # << >> /\ text[Len(text)] = " "
  THEN trimEnd(SubSeq(text, 1, Len(text) - 1)) ELSE text
\* Mutant: the text is tested as typed.
trimNothing(text) == text

trim(text) == trimEnd(trimStart(text))

\* Firebase variant: TaskList.handleSubmit calls onAddTask unless the trimmed text
\* is empty; handleAddTask appends the task with the id crypto.randomUUID() gave.
handleAddTask(prev, id, text, dueDate) ==
  IF trim(text) = << >> THEN prev
  ELSE Append(prev, Task(id, text, FALSE, dueDate))

\* GitHub variant: addTask.
addTask(list, id, newTaskText, newTaskDate) ==
  IF trim(newTaskText) = << >> THEN list
  ELSE list \o << Task(id, newTaskText, FALSE, newTaskDate) >>

\* handleToggleTask / toggleTask.
handleToggleTask(prev, id) ==
  [i \in 1 .. Len(prev) |->
     IF prev[i].id = id THEN [prev[i] EXCEPT !.completed = ~prev[i].completed]
     ELSE prev[i]]
toggleTask(list, id) ==
  [i \in 1 .. Len(list) |->
     IF list[i].id = id THEN [list[i] EXCEPT !.completed = ~list[i].completed]
     ELSE list[i]]

\* Mutant: the task is removed by moving the last task of the list into its place.
handleDeleteTaskSwaps(prev, id) ==
  LET found == {i \in 1 .. Len(prev) : prev[i].id = id}
  IN  IF found = {} THEN prev
      ELSE LET i == CHOOSE j \in found : TRUE
           IN  SubSeq([prev EXCEPT ![i] = prev[Len(prev)]], 1, Len(prev) - 1)

\* handleDeleteTask / deleteTask.
handleDeleteTask(prev, id) == SelectSeq(prev, LAMBDA t : t.id # id)
deleteTask(list, id) == SelectSeq(list, LAMBDA t : t.id # id)

\* The texts typed into the task box, the due dates picked, the ids drawn.
TaskTexts == {<< "a" >>, << " " >>, << >>}
TaskIds == 1 .. (MaxTasks + 1)
DueDates == {Undefined, LocalMidnight(FirstDay + 2)}

\* setTasks with the new list: the localStorage item, and the render that
\* follows, which leaves the list as the tasks state, and its sync effect.
SetTasks(next) ==
  /\ storage' = [storage EXCEPT !.tasks = setItem(fault, @, stringifyTasks(next))]
  /\ AfterChange(targetDate, excludedDates, next)
  /\ toggles' = NoToggles
  /\ UNCHANGED << variant, fault, hasError, mounted, targetDate, excludedDates, now, today, lastToday, lastCheckAt,
                  cloudVars >>

\* The task form is submitted; a blank text returns before any setter is called.
AddTask(id, text, dueDate) ==
  /\ mounted
  /\ Len(view.tasks) < MaxTasks
  /\ id \notin {t.id : t \in Range(view.tasks) \cup Range(tasks)}
  /\ LET next == IF variant = "firebase" THEN handleAddTask(view.tasks, id, text, dueDate)
                 ELSE addTask(view.tasks, id, text, dueDate)
     IN  IF trim(text) = << >>
         THEN /\ toggles' = NoToggles
              /\ UNCHANGED << variant, fault, hasError, mounted, targetDate, excludedDates, tasks, storage,
                              saveTimers, hist, clockVars, syncStatus, loads, cloudVars,
                              view >>
         ELSE SetTasks(next)

\* The checkbox and the delete button of a listed task.
ToggleTask(id) ==
  /\ mounted
  /\ id \in {t.id : t \in Range(view.tasks)}
  /\ SetTasks(IF variant = "firebase" THEN handleToggleTask(view.tasks, id)
              ELSE toggleTask(view.tasks, id))

DeleteTask(id) ==
  /\ mounted
  /\ id \in {t.id : t \in Range(view.tasks)}
  /\ SetTasks(IF variant = "firebase" THEN handleDeleteTask(view.tasks, id)
              ELSE deleteTask(view.tasks, id))

\* ------------------------------------------------------------------ render
\* A state update made outside an event handler (by the continuation of a load or
\* a save, or by a timer callback) is rendered in a later task: Home renders the
\* states as they are and the effects of the render run.  In the Firebase variant
\* the init effect's setSyncStatus({state: "loading"}) stores a new object, so a
\* render is always due, and after it the effect runs again: the next turn of
\* the loop.
Render ==
  /\ mounted
  /\ variant = "firebase" \/ view.sync \/ view.today # today
  /\ Effects(targetDate, excludedDates, tasks, hasLoadedRemote, githubToken, FALSE)
  /\ hist' = [hist EXCEPT !.rendered = syncStatus]
  /\ UNCHANGED << variant, fault, hasError, mounted, targetDate, excludedDates, storage,
                  now, today, lastToday, lastCheckAt, toggles, cloudVars >>

\* ------------------------------------------------------------------ Firebase load
\* What the remote read of a load comes to: a document, no document, or an error.
ReadValue(data) == [kind |-> "value", data |-> data]
ReadMissing == [kind |-> "missing"]
ReadError == [kind |-> "error"]

\* Mutant: a failed or empty read yields an empty document instead of null.
loadFromFirebaseDefaults(outcome) ==
  IF outcome.kind = "value" THEN outcome.data
  ELSE [targetDate |-> Undefined, excludedDates |-> ArrayOf(<< >>), tasks |-> ArrayOf(<< >>)]

\* loadFromFirebase: the document, null when there is none, and null when the
\* read threw (the error is caught and logged).
loadFromFirebase(outcome) ==
  IF outcome.kind = "value" THEN outcome.data ELSE Null

\* applyRemoteData calls at least one of the three setters.
Applies(data) ==
  \/ data.targetDate # Undefined
  \/ data.excludedDates # Undefined
  \/ data.tasks # Undefined

\* Firebase variant: syncStatus.state as init sets it once the load has resolved.
statusAfterLoad(data) == IF data # Null THEN "saved" ELSE "idle"

\* Firebase variant: loadFromFirebase resolves with a document, or with null when
\* there is none or the read failed, and init continues: it applies the document,
\* sets the status and sets hasLoadedRemote.  The setters write localStorage
\* whether Home is still mounted or not; the states are those of a mounted Home.
\* The render is a later step: its sync effect runs again when a setter was
\* called or hasLoadedRemote changed.  One load less is in flight; of MaxLoads
\* or more, MaxLoads or more may remain.
LoadSettle(outcome) ==
  LET data == loadFromFirebase(outcome) IN
  /\ variant = "firebase"
  /\ loads > 0
  /\ loads' \in (IF loads = MaxLoads THEN {loads, loads - 1} ELSE {loads - 1})
  /\ IF data # Null
     THEN storage' =
               [target |-> IF data.targetDate # Undefined
                           THEN setItem(fault, storage.target,
                                        stringifyTarget(newDate(data.targetDate)))
                           ELSE storage.target,
                excluded |-> IF data.excludedDates # Undefined
                             THEN setItem(fault, storage.excluded,
                                          JsonOf(data.excludedDates.items))
                             ELSE storage.excluded,
                tasks |-> IF data.tasks # Undefined
                          THEN setItem(fault, storage.tasks,
                                       stringifyTasks(applyTasks(data, tasks)))
                          ELSE storage.tasks]
     ELSE storage' = storage
  /\ IF mounted
     THEN /\ targetDate' = IF data # Null THEN applyTarget(data, targetDate) ELSE targetDate
          /\ excludedDates' = IF data # Null THEN applyExcluded(data, excludedDates)
                              ELSE excludedDates
          /\ tasks' = IF data # Null THEN applyTasks(data, tasks) ELSE tasks
          /\ syncStatus' = statusAfterLoad(data)
          /\ hasLoadedRemote' = TRUE
          /\ hist' = [hist EXCEPT !.changed = @ \/ (data # Null /\ Applies(data))]
          /\ view' = [view EXCEPT
                        !.sync = @ \/ (data # Null /\ Applies(data)) \/ ~hasLoadedRemote]
     ELSE UNCHANGED << targetDate, excludedDates, tasks, syncStatus, hasLoadedRemote, hist,
                       view >>
  /\ toggles' = NoToggles
  /\ UNCHANGED << variant, fault, hasError, mounted, clockVars, githubToken, saves,
                  gistId, remote, saveTimers >>

\* The outcomes of the remote read that the Firebase load is driven with.
LoadOutcomes == {ReadValue(d) : d \in RemoteDocs} \cup {ReadMissing, ReadError}

Next ==
  \/ Render
  \/ \E outcome \in LoadOutcomes : LoadSettle(outcome)
  \/ \E n \in {FirstDay, FirstDay + 4} : SelectTargetDate(LocalMidnight(n))
  \/ \E date \in ToggleDates \ {LocalMidnight(FirstDay), LocalMidnight(FirstDay + 3)} :
       ToggleExclusion(date)
  \/ \E iso \in LocalIsos \cup OtherIsos, c \in CommentTexts : UpdateComment(iso, c)
  \/ \E confirmed \in BOOLEAN : Reset(confirmed)

Spec == Init /\ [][Next]_vars

\* ------------------------------------------------------------------ GitHub load
\* loadFromGitHub: the parsed file of the gist; null without token or gist id,
\* when the response is not ok or has no such file, and when anything threw.
loadFromGitHub(outcome) ==
  IF outcome.kind = "value" THEN outcome.data ELSE Null

\* The gist does not exist (404): loadFromGitHub removes the stored gist id.
ReadNotFound == [kind |-> "notFound"]

\* The load effect's tests of what localStorage holds: `!currentTargetDate`, and
\* `!current || current === "[]"` for the two lists.
noStoredTarget(item) == item = Absent

\* Mutant: the lists of the document are applied whatever is stored locally.
noStoredListAlways(item) == TRUE

noStoredList(item) == item \in {Absent, JsonOf(<< >>)}

\* GitHub variant: the load the mount effect started settles and the effect
\* continues.  A field of the document is applied only where localStorage holds
\* nothing for it; a throw of localStorage.getItem is caught by the effect's try
\* and nothing is applied.  The setters write localStorage whether Home is still
\* mounted or not; the render is a later step.
GitHubLoadSettle(outcome) ==
  LET data == loadFromGitHub(outcome)
      currentTargetDate == getItem(fault, storage.target)
      currentExcluded == getItem(fault, storage.excluded)
      currentTasks == getItem(fault, storage.tasks)
      setsTarget == /\ data # Null
                    /\ currentTargetDate # Throws
                    /\ noStoredTarget(currentTargetDate)
                    /\ data.targetDate # Undefined
      setsExcluded == /\ data # Null
                      /\ currentExcluded # Throws
                      /\ noStoredList(currentExcluded)
                      /\ Len(data.excludedDates.items) > 0
      setsTasks == /\ data # Null
                   /\ currentTasks # Throws
                   /\ noStoredList(currentTasks)
                   /\ Len(data.tasks.items) > 0
      nextTarget == IF setsTarget THEN newDate(data.targetDate) ELSE targetDate
      nextExcluded == IF setsExcluded THEN data.excludedDates.items ELSE excludedDates
      nextTasks == IF setsTasks
                   THEN [i \in 1 .. Len(data.tasks.items) |-> reviveTask(data.tasks.items[i])]
                   ELSE tasks
  IN  /\ variant = "github"
      /\ loads > 0
      /\ loads' = loads - 1
      /\ storage' = [target |-> IF setsTarget
                                THEN setItem(fault, storage.target,
                                             stringifyTarget(nextTarget))
                                ELSE storage.target,
                     excluded |-> IF setsExcluded
                                  THEN setItem(fault, storage.excluded, JsonOf(nextExcluded))
                                  ELSE storage.excluded,
                     tasks |-> IF setsTasks
                               THEN setItem(fault, storage.tasks, stringifyTasks(nextTasks))
                               ELSE storage.tasks]
      /\ IF mounted
         THEN /\ targetDate' = nextTarget
              /\ excludedDates' = nextExcluded
              /\ tasks' = nextTasks
              /\ hist' = [hist EXCEPT !.changed = @ \/ setsTarget \/ setsExcluded \/ setsTasks]
              /\ view' = [view EXCEPT !.sync = @ \/ setsTarget \/ setsExcluded \/ setsTasks]
         ELSE UNCHANGED << targetDate, excludedDates, tasks, hist, view >>
      /\ gistId' = IF outcome = ReadNotFound THEN 0 ELSE gistId
      /\ toggles' = NoToggles
      /\ UNCHANGED << variant, fault, hasError, mounted, clockVars, syncStatus,
                      hasLoadedRemote, githubToken, saves, remote, saveTimers >>

\* ------------------------------------------------------------------ remote save
\* Mutant: the timer repeats (setInterval), so it stays registered after it ran.
timerFiredRepeats(pending, i) == pending

\* The pending timers once the i-th has run: a one-shot timer is gone.
timerFired(pending, i) ==
  SubSeq(pending, 1, i - 1) \o SubSeq(pending, i + 1, Len(pending))

\* saveToFirebase / saveToGitHub: how the promise settles when the remote write
\* succeeded (ok) or failed; a failure is caught and logged inside.
saveToFirebase(ok) == "resolved"
saveToGitHub(ok) == "resolved"

\* Firebase variant: syncStatus.state after the awaited save has settled.
statusAfterSave(settled) == IF settled = "resolved" THEN "saved" ELSE "error"

\* A save in flight: the document sent and, in the GitHub variant, the gist id
\* saveToGitHub read when it was called (0: none, so the request is a POST).
Request(payload, gist) == [payload |-> payload, gist |-> gist]

\* The POST requests in flight: each creates a gist when it succeeds.
PostsInFlight(inFlight) == {j \in 1 .. Len(inFlight) : inFlight[j].gist = 0}

\* A pending save timer runs: the callback builds the payload from the values it
\* closed over and calls saveToFirebase / saveToGitHub with it.  In the GitHub
\* variant building the payload may throw, which is caught: nothing is sent; and
\* saveToGitHub returns at once when no token is stored.
SaveTimerFire(i) ==
  /\ i \in 1 .. Len(saveTimers)
  /\ Len(saves) < MaxSaves
  /\ (variant = "github" /\ gistId = 0) =>
       Len(remote) + Cardinality(PostsInFlight(saves)) < MaxGists
  /\ LET payload == SavePayload(variant, saveTimers[i])
         sent == payload # Thrown /\ (variant = "github" => githubToken)
         gist == IF variant = "github" THEN gistId ELSE 0
     IN  saves' = IF sent THEN Append(saves, Request(payload, gist)) ELSE saves
  /\ saveTimers' = timerFired(saveTimers, i)
  /\ syncStatus' = IF variant = "firebase" THEN "saving" ELSE syncStatus
  /\ hist' = [hist EXCEPT !.changed = @ /\ view.sync]
  /\ UNCHANGED << variant, fault, hasError, mounted, targetDate, excludedDates, tasks, storage,
                  hasLoadedRemote, githubToken, clockVars, toggles, gistId,
                  remote, loads, view >>

\* saveToGitHub after the response: `if (!gistId && result.id)` stores the id of
\* the gist, gistId being what was read before the request was sent.
storeGistId(f, stored, sentWith, id) ==
  IF sentWith = 0 THEN setItem(f, stored, id) ELSE stored

\* The i-th save in flight settles, the remote write having succeeded or failed.
\* The database client sends the writes of its connection in the order of the
\* set() calls; the fetch requests to the Gist API are independent of each other.
\* A POST creates a gist, a PATCH replaces the content of the gist it names and
\* fails (404) when the id names no gist.
SaveSettle(i, ok) ==
  /\ i \in 1 .. Len(saves)
  /\ variant = "firebase" => i = 1
  /\ (ok /\ variant = "github") => saves[i].gist <= Len(remote)
  /\ saves' = SubSeq(saves, 1, i - 1) \o SubSeq(saves, i + 1, Len(saves))
  /\ syncStatus' = IF mounted /\ variant = "firebase"
                   THEN statusAfterSave(saveToFirebase(ok))
                   ELSE syncStatus
  /\ LET s == saves[i]
         creates == ok /\ variant = "github" /\ s.gist = 0
     IN  /\ remote' = IF ~ok THEN remote
                      ELSE IF variant = "firebase" THEN << s.payload >>
                      ELSE IF s.gist = 0 THEN Append(remote, s.payload)
                      ELSE [remote EXCEPT ![s.gist] = s.payload]
         /\ gistId' = IF ok /\ variant = "github"
                      THEN storeGistId(fault, gistId, s.gist, Len(remote) + 1)
                      ELSE gistId
         /\ hist' = [hist EXCEPT !.lastSave = IF ok THEN "ok" ELSE "failed",
                                 !.failed = @ \/ ~ok,
                                 !.created = IF creates THEN @ + 1 ELSE @]
  /\ UNCHANGED << variant, fault, hasError, mounted, targetDate, excludedDates, tasks, storage,
                  hasLoadedRemote, githubToken, saveTimers, clockVars, toggles, loads,
                  view >>

\* ------------------------------------------------------------------ GitHub token
\* handleSetToken with a non-blank token: setGitHubToken stores it, then the
\* state is set and, in the render that follows, the sync effect, which depends
\* on githubToken, runs again.
\* When localStorage.setItem throws, the handler is left before the state is set.
handleSetToken(f, token) == IF f = "none" THEN TRUE ELSE token

SetToken ==
  /\ mounted
  /\ variant = "github"
  /\ ~githubToken
  /\ githubToken' = handleSetToken(fault, githubToken)
  /\ IF githubToken' # githubToken
     THEN Effects(targetDate, excludedDates, tasks, hasLoadedRemote, githubToken', TRUE)
     ELSE UNCHANGED << view, tasks, saveTimers, intervalOn, timeoutAt, timers, syncStatus,
                       loads >>
  /\ hist' = [hist EXCEPT !.created = 0]
  /\ toggles' = NoToggles
  /\ UNCHANGED << variant, fault, hasError, mounted, targetDate, excludedDates, storage,
                  hasLoadedRemote, saves, gistId, remote, now, today, lastToday, lastCheckAt >>

\* handleRemoveToken: setGitHubToken(null) removes the token and the gist id,
\* the state is cleared and the sync effect's cleanup clears the pending timer.
RemoveToken ==
  /\ mounted
  /\ variant = "github"
  /\ githubToken
  /\ githubToken' = FALSE
  /\ gistId' = 0
  /\ Effects(targetDate, excludedDates, tasks, hasLoadedRemote, FALSE, TRUE)
  /\ toggles' = NoToggles
  /\ UNCHANGED << variant, fault, hasError, mounted, targetDate, excludedDates, storage,
                  hasLoadedRemote, saves, remote, now, today, lastToday, lastCheckAt, hist >>

\* setGitHubGistId, exported by githubStorage.ts (no component calls it): a gist
\* id is stored with setStoredValue, whose localStorage.setItem throws before the
\* cookie is written when storage is denied or full; null removes the stored id
\* with removeStoredValue, whose removeItem throws when storage is denied.  No
\* React state is set, so nothing renders: the saves and loads that follow read
\* the new id.  The id need not name a gist.
SetGitHubGistId(id) ==
  /\ variant = "github"
  /\ id \in 0 .. MaxGists
  /\ gistId' = IF id # 0 THEN setItem(fault, gistId, id)
               ELSE IF fault = "denied" THEN gistId
               ELSE 0
  /\ toggles' = NoToggles
  /\ UNCHANGED << variant, fault, hasError, mounted, targetDate, excludedDates, tasks, storage,
                  hasLoadedRemote, githubToken, saveTimers, saves, remote, clockVars, loads,
                  syncStatus, hist, view >>

\* ------------------------------------------------------------------ persistence and sync
\* The day the sync runs pick and store, and the clock value they mount at.
SyncDay == FirstDay + 2
SyncDates == {LocalMidnight(SyncDay)}
SyncIso == toISOString(LocalMidnight(SyncDay))
SyncMountTimes == {DateOf(getTime(LocalMidnight(FirstDay)) + END_OF_DAY_HOUR - 1)}

\* What an earlier session left in localStorage: a target and a task with a due
\* date, both stored as ISO strings.
SyncStoredTargets == {Absent, SyncIso}
SyncTaskIds == {1}
SyncStoredTasks == {Absent, JsonOf(<< Task(1, << "a" >>, FALSE, SyncIso) >>)}

\* The remote documents: one another device wrote, and for the gist an empty one.
FullDoc ==
  [targetDate |-> toISOString(DateOf(SyncDay * HoursPerDay + OtherUtcOffset)),
   excludedDates |->
     ArrayOf(<< ExcludedDate(toISOString(DateOf(SyncDay * HoursPerDay + OtherUtcOffset)),
                             Undefined) >>),
   tasks |-> ArrayOf(<< Task(2, << "a" >>, TRUE, SyncIso) >>)]
EmptyDoc ==
  [targetDate |-> Undefined, excludedDates |-> ArrayOf(<< >>), tasks |-> ArrayOf(<< >>)]
FirebaseOutcomes == {ReadValue(FullDoc), ReadMissing, ReadError}
GitHubOutcomes ==
  {ReadValue(FullDoc), ReadValue(EmptyDoc), ReadMissing, ReadNotFound, ReadError}

\* ------------------------------------------------------------------ the clock
\* Mutant: a stale today is moved on by one day instead of set to the clock's day.
intervalCallbackStepsOne(tdy, n) ==
  LET next == getEffectiveToday(n)
  IN  IF getTime(next) # getTime(tdy) THEN addDays(tdy, 1) ELSE tdy

\* Mutant: the check never stores the new day.
checkAndUpdateNever(tdy, n) == tdy

\* Firebase variant: the interval callback; the value of today after it has run
\* at clock value n.
intervalCallback(tdy, n) ==
  LET next == getEffectiveToday(n)
  IN  IF getTime(next) # getTime(tdy) THEN next ELSE tdy

\* GitHub variant: checkAndUpdate, run by the one-shot timer and by the interval.
checkAndUpdate(tdy, n) ==
  LET newEffectiveToday == getEffectiveToday(n)
  IN  IF getTime(newEffectiveToday) # getTime(tdy) THEN newEffectiveToday ELSE tdy

\* The end of the modelled window of wall-clock time.
ClockEnd == LocalMidnight(FirstDay + NumDays)

\* Wall-clock time passes: one hour.  Timers that are due need not have run.
Tick ==
  /\ getTime(now) < getTime(ClockEnd)
  /\ now' = DateOf(getTime(now) + 1)
  /\ UNCHANGED << variant, fault, hasError, mounted, today, targetDate, excludedDates, tasks, storage,
                  syncStatus, loads, cloudVars, timeoutAt, intervalOn, lastToday, lastCheckAt, toggles,
                  timers, saveTimers, hist, view >>

\* A timer callback has run the clock check against the today of the render that
\* set it up, and the check has produced value: setToday / setEffectiveToday
\* when it differs.  The render in which the timer effect, which depends on
\* today, is cleaned up and run again is a later step.
ApplyCheck(value, timeoutRan) ==
  /\ today' = IF value # view.today THEN value ELSE today
  /\ lastToday' = IF today' # today THEN today ELSE lastToday
  /\ lastCheckAt' = IF today' # today THEN now ELSE lastCheckAt
  /\ timeoutAt' = IF timeoutRan THEN Undefined ELSE timeoutAt
  /\ timers' = firedTimers(timers, timeoutRan)
  /\ UNCHANGED << intervalOn, syncStatus, loads, hist, view >>

\* The one-minute interval fires (its period is shorter than one step of the clock).
IntervalFire ==
  /\ mounted
  /\ intervalOn
  /\ ApplyCheck(IF variant = "firebase"
                THEN intervalCallback(view.today, now)
                ELSE checkAndUpdate(view.today, now), FALSE)
  /\ UNCHANGED << variant, fault, hasError, now, mounted, targetDate, excludedDates, tasks, storage,
                  cloudVars, toggles, saveTimers >>

\* GitHub variant: the one-shot timer set for the next 5 PM fires, at or after then.
TimeoutFire ==
  /\ mounted
  /\ timeoutAt # Undefined
  /\ getTime(now) >= getTime(timeoutAt)
  /\ ApplyCheck(checkAndUpdate(view.today, now), TRUE)
  /\ UNCHANGED << variant, fault, hasError, now, mounted, targetDate, excludedDates, tasks, storage,
                  cloudVars, toggles, saveTimers >>

\* Home unmounts: the timer effect's cleanup clears the interval and the timeout,
\* the sync effect's cleanup clears the pending save timer.
Unmount ==
  /\ mounted
  /\ mounted' = FALSE
  /\ intervalOn' = FALSE
  /\ timeoutAt' = Undefined
  /\ timers' = timerCleanup(timers, timeoutAt # Undefined)
  /\ saveTimers' = clearSaveTimer(saveTimers)
  /\ UNCHANGED << variant, fault, hasError, now, today, targetDate, excludedDates, tasks, storage,
                  syncStatus, loads, cloudVars, lastToday, lastCheckAt, toggles, hist,
                  view >>

InitClock == InitAll(MountTimes, {Absent}, {Absent}, {Absent}, {"none", "local"})

NextClock ==
  \/ Render
  \/ Tick
  \/ IntervalFire
  \/ TimeoutFire
  \/ Unmount

SpecClock == InitClock /\ [][NextClock]_vars

\* The interval keeps firing while Home is mounted, and a render that is due is
\* made.
SpecClockFair == SpecClock /\ WF_vars(IntervalFire) /\ WF_vars(Render)

\* ------------------------------------------------------------------ persistence and sync runs
InitSync ==
  InitAll(SyncMountTimes, SyncStoredTargets, {Absent}, SyncStoredTasks, {"none", "local"})

\* The sync runs change the target date and the tasks (the list of excluded dates
\* changes by the remote load), add a task to an empty list only and let a save settle before
\* the next timer runs; longer lists are in the task runs, overlapping saves in
\* the cloud runs.
NextSync ==
  \/ Render
  \/ \E outcome \in FirebaseOutcomes : LoadSettle(outcome)
  \/ \E outcome \in GitHubOutcomes : GitHubLoadSettle(outcome)
  \/ \E date \in SyncDates : SelectTargetDate(date)
  \/ \E id \in SyncTaskIds, text \in TaskTexts, due \in SyncDates :
       tasks = << >> /\ AddTask(id, text, due)
  \/ \E confirmed \in BOOLEAN : Reset(confirmed)
  \/ \E i \in 1 .. Len(saveTimers) : saves = << >> /\ SaveTimerFire(i)
  \/ \E i \in 1 .. Len(saves), ok \in BOOLEAN : SaveSettle(i, ok)
  \/ \E id \in 0 .. MaxGists : SetGitHubGistId(id)
  \/ Unmount

SpecSync == InitSync /\ [][NextSync]_vars

\* The task runs: the three task handlers, the reset and the remote loads, from
\* a localStorage that holds no task, one task or three (not in the order of
\* their due dates), and with remote documents of one task and of two.
TaskStoredLists ==
  SyncStoredTasks
    \cup {JsonOf(<< Task(2, << "a" >>, TRUE, toISOString(LocalMidnight(SyncDay + 1))),
                    Task(1, << "a" >>, FALSE, Undefined),
                    Task(3, << "a" >>, FALSE, SyncIso) >>)}
TwoTaskDoc ==
  [targetDate |-> Undefined,
   excludedDates |-> ArrayOf(<< >>),
   tasks |-> ArrayOf(<< Task(2, << "a" >>, FALSE, Undefined), Task(3, << "a" >>, FALSE, SyncIso) >>)]
TaskOutcomes == {ReadValue(FullDoc), ReadValue(TwoTaskDoc), ReadMissing}

InitTasks ==
  InitAll(SyncMountTimes, {Absent, SyncIso}, {Absent}, TaskStoredLists, {"none", "local"})

NextTasks ==
  \/ \E id \in TaskIds, text \in TaskTexts, due \in DueDates : AddTask(id, text, due)
  \/ \E id \in TaskIds : ToggleTask(id)
  \/ \E id \in TaskIds : DeleteTask(id)
  \/ \E confirmed \in BOOLEAN : Reset(confirmed)
  \/ Render
  \/ \E outcome \in TaskOutcomes : LoadSettle(outcome)
  \/ \E outcome \in TaskOutcomes : GitHubLoadSettle(outcome)

SpecTasks == InitTasks /\ [][NextTasks]_vars

\* The storage runs: localStorage works, throws on every access ("denied") or
\* throws on setItem ("full"), and may hold items that JSON.parse rejects.
StorageTargets == {Absent, Unparsable, SyncIso}
StorageExcluded == {Absent, Unparsable, LegacyExcluded}
StorageTasks == SyncStoredTasks \cup {Unparsable}
StorageFaults == {"none", "denied", "full"}

InitStorage ==
  InitFaulty(SyncMountTimes, StorageTargets, StorageExcluded, StorageTasks,
             {"none", "local", "cookie"}, StorageFaults)

NextStorage ==
  \/ Render
  \/ \E outcome \in FirebaseOutcomes : LoadSettle(outcome)
  \/ \E outcome \in GitHubOutcomes : GitHubLoadSettle(outcome)
  \/ \E date \in SyncDates : SelectTargetDate(date)
  \/ \E date \in SyncDates : ToggleExclusion(date)
  \/ \E id \in SyncTaskIds, text \in TaskTexts, due \in SyncDates :
       tasks = << >> /\ AddTask(id, text, due)
  \/ \E confirmed \in BOOLEAN : Reset(confirmed)
  \/ SetToken
  \/ RemoveToken

SpecStorage == InitStorage /\ [][NextStorage]_vars

\* The cloud runs: saves that overlap, and the GitHub token set and removed.
\* The loads find no document.
CloudOutcomes == {ReadMissing, ReadError}

InitCloud == InitAll(SyncMountTimes, {Absent}, {Absent}, {Absent}, {"none", "local"})

NextCloud ==
  \/ Render
  \/ \E outcome \in CloudOutcomes : LoadSettle(outcome)
  \/ \E outcome \in CloudOutcomes : GitHubLoadSettle(outcome)
  \/ \E date \in SyncDates : SelectTargetDate(date)
  \/ \E i \in 1 .. Len(saveTimers) : SaveTimerFire(i)
  \/ \E i \in 1 .. Len(saves), ok \in BOOLEAN : SaveSettle(i, ok)
  \/ SetToken
  \/ RemoveToken
  \/ \E id \in 0 .. MaxGists : SetGitHubGistId(id)
  \/ Unmount

SpecCloud == InitCloud /\ [][NextCloud]_vars

\* ------------------------------------------------------------------ day counts
\* The local calendar days from today through the target, both included.
DayRange(target, tdy) == localDay(tdy) .. localDay(newDate(target))
IsWeekendDay(n) == (n + 4) % 7 \in {0, 6}

\* The local calendar days the entries of the list fall on.
ExcludedCalendarDays(excluded) == {localDay(newDate(e.date)) : e \in Range(excluded)}
\* The entries' date strings.
DateSet(excluded) == {e.date : e \in Range(excluded)}

\* C1 (as claimed): workingDaysRemaining, as every render computes it, is the
\* number of calendar days d with today <= d <= target that are neither Saturday
\* nor Sunday and whose calendar date is not the calendar date of an excluded
\* entry; 0 when no target is set.
C1_WorkingDaysCountByCalendarDate ==
  WorkingDays =
    IF view.targetDate = Undefined THEN 0
    ELSE Cardinality({n \in DayRange(view.targetDate, view.today) :
                        ~IsWeekendDay(n) /\ n \notin ExcludedCalendarDays(view.excludedDates)})

\* C2 (as claimed): in either variant calendarDaysRemaining, as every render
\* computes it, is max(0, whole calendar days from today to target + 1), and 0
\* with no target.
C2_CalendarDaysClamped ==
  CalendarDays =
    IF view.targetDate = Undefined THEN 0
    ELSE Cardinality(DayRange(view.targetDate, view.today))

\* C2 (amended): the Firebase variant's calendarDaysRemaining is max(0, days + 1),
\* the inclusive count of days from today through the target, and 0 with no
\* target; the GitHub variant's calendarDaysRemaining itself is days + 1
\* unclamped and 0 with no target, and the number it renders is max(0, days + 1)
\* with a target and a dash with none.
C2_CalendarDaysInclusive ==
  LET days == localDay(newDate(targetDate)) - localDay(today)
      inclusive == IF targetDate = Undefined THEN 0
                   ELSE Cardinality(DayRange(targetDate, today))
  IN  /\ calendarDaysRemaining(targetDate, today) = inclusive
      /\ calendarDaysShownGitHub(targetDate, today) =
           IF targetDate = Undefined THEN Dash ELSE inclusive
      /\ calendarDaysRemainingGitHub(targetDate, today) =
           IF targetDate = Undefined THEN 0 ELSE days + 1

C2_Witness ==
  /\ variant = "github"
  /\ toggles.n >= 1
  /\ targetDate # Undefined
  /\ calendarDaysRemainingGitHub(targetDate, today) < 0
  /\ calendarDaysShownGitHub(targetDate, today) = 0

\* C3: with the target strictly before today, calendarDaysRemaining and
\* workingDaysRemaining are both 0, and neither is negative in any state.
C3_PastTargetIsZero ==
  LET cal == calendarDaysRemaining(targetDate, today)
      work == workingDaysRemaining(targetDate, today, excludedDates)
  IN  /\ cal >= 0
      /\ work >= 0
      /\ (targetDate # Undefined /\ getTime(newDate(targetDate)) < getTime(today))
           => (cal = 0 /\ work = 0)

C3_Witness ==
  /\ variant = "firebase"
  /\ toggles.n >= 1
  /\ targetDate # Undefined
  /\ localDay(newDate(targetDate)) + 2 <= localDay(today)
  /\ excludedDates # << >>

\* C4: in every render of Home whose target date is its today, that day being
\* neither a weekend day nor an excluded date, calendarDaysRemaining is 1 and
\* workingDaysRemaining is 1.
C4_TargetToday ==
  (/\ view.targetDate # Undefined
   /\ isSameDay(newDate(view.targetDate), view.today)
   /\ ~IsWeekendDay(localDay(view.today))
   /\ toISOString(view.today) \notin DateSet(view.excludedDates))
    => (CalendarDays = 1 /\ WorkingDays = 1)

C4_Witness ==
  /\ mounted
  /\ toggles.n >= 1
  /\ view.targetDate # Undefined
  /\ isSameDay(newDate(view.targetDate), view.today)
  /\ ~IsWeekendDay(localDay(view.today))
  /\ toISOString(view.today) \notin DateSet(view.excludedDates)
  /\ view.excludedDates # << >>
  /\ CalendarDays = 1
  /\ WorkingDays = 1

\* C5: workingDaysRemaining never exceeds calendarDaysRemaining (the Firebase
\* variant's values, and the two numbers the GitHub variant renders; with no
\* target date it renders a dash for both and computes 0 for both).
C5_WorkingAtMostCalendar ==
  /\ workingDaysRemaining(targetDate, today, excludedDates)
       <= calendarDaysRemaining(targetDate, today)
  /\ IF targetDate # Undefined
     THEN workingDaysShownGitHub(targetDate, today, excludedDates)
            <= calendarDaysShownGitHub(targetDate, today)
     ELSE /\ workingDaysShownGitHub(targetDate, today, excludedDates) = Dash
          /\ calendarDaysShownGitHub(targetDate, today) = Dash
          /\ calculateWorkingDays(targetDate, today, excludedDates)
               <= calendarDaysRemainingGitHub(targetDate, today)

C5_Witness ==
  /\ variant = "firebase"
  /\ toggles.n >= 1
  /\ Len(excludedDates) = 2
  /\ workingDaysRemaining(targetDate, today, excludedDates) >= 1
  /\ workingDaysRemaining(targetDate, today, excludedDates)
       < calendarDaysRemaining(targetDate, today)

\* C10: two toggles of the same date in succession leave the set of excluded
\* dates as it was before the first (comments aside).
C10_ToggleTwice ==
  toggles.n = 2 => DateSet(excludedDates) = DateSet(toggles.before)

C10_Witness ==
  /\ toggles.n = 2
  /\ toggles.before # << >>
  /\ excludedDates # toggles.before

\* ------------------------------------------------------------------ clock claims
\* The local hour of day of a clock value, and whether today lags the clock.
LocalHour(n) == (getTime(n) - UtcOffset) % HoursPerDay
Stale == today # getEffectiveToday(now)

\* The 5 PM instants from today's own onward that the clock has reached.
CrossingsPassed(tdy, n) ==
  {k \in Days \cup {FirstDay + NumDays} :
     /\ k >= localDay(tdy)
     /\ getTime(LocalMidnight(k)) + END_OF_DAY_HOUR <= getTime(n)}

\* C6: getEffectiveToday is calendar-tomorrow from 17:00 local time on (17:00
\* itself included) and calendar-today before.
C6_EffectiveToday ==
  getEffectiveToday(now) =
    IF LocalHour(now) >= END_OF_DAY_HOUR
    THEN LocalMidnight(localDay(now) + 1)
    ELSE LocalMidnight(localDay(now))

C6_Witness ==
  /\ LocalHour(now) = END_OF_DAY_HOUR
  /\ lastCheckAt = now
  /\ today = LocalMidnight(localDay(now) + 1)

\* C7: as the clock advances, today never moves to an earlier calendar day.
C7_NeverBackward == [][localDay(today') >= localDay(today)]_vars

C7_Witness ==
  /\ lastToday # Undefined
  /\ lastCheckAt # now
  /\ localDay(now) = localDay(today)
  /\ today = addDays(lastToday, 1)

\* C8 (as claimed): every change of today advances it by exactly one calendar day.
C8_ExactlyOneDay == [][today' # today => today' = addDays(today, 1)]_vars

\* C8 (amended): every change of today moves it forward by one calendar day for
\* each 5 PM crossing the clock has passed since today was current: exactly one
\* day when the check runs before the next crossing, more when checks were late.
C8_OneDayPerCrossing ==
  [][today' # today =>
       /\ Cardinality(CrossingsPassed(today, now)) >= 1
       /\ today' = addDays(today, Cardinality(CrossingsPassed(today, now)))]_vars

C8_Witness ==
  /\ lastToday # Undefined
  /\ today = addDays(lastToday, 2)

\* C9: while Home stays mounted, whenever today lags the clock the check
\* eventually runs and today, as set and as the latest render computes with it,
\* equals getEffectiveToday of the current time.
C9_EventuallyCurrent == (mounted /\ Stale) ~> (~mounted \/ (~Stale /\ view.today = today))

C9_Witness ==
  /\ mounted
  /\ lastToday # Undefined
  /\ lastCheckAt = now
  /\ ~Stale
  /\ view.today = today

\* ------------------------------------------------------------------ excluded-dates claims
\* C11 (as claimed): the excluded-dates list never holds two entries that fall on
\* the same calendar date.
C11_OneEntryPerCalendarDate ==
  \A i, j \in 1 .. Len(excludedDates) :
    i # j => localDay(newDate(excludedDates[i].date)) # localDay(newDate(excludedDates[j].date))

\* C12: a comment update keeps the length, the order and every entry's date of
\* the list the page shows, sets the comment of the entries whose date is the
\* given key and of no other, leaves target date and tasks alone, and with a key
\* no entry has it returns the list as it was.
C12_CommentUpdateFrame ==
  /\ [](\A iso \in (LocalIsos \cup OtherIsos) \ DateSet(excludedDates), c \in CommentTexts :
          /\ handleUpdateComment(excludedDates, iso, c) = excludedDates
          /\ updateExclusionComment(excludedDates, iso, c) = excludedDates)
  /\ [][\A iso \in LocalIsos \cup OtherIsos, c \in CommentTexts :
          UpdateComment(iso, c) =>
            /\ Len(excludedDates') = Len(view.excludedDates)
            /\ \A i \in 1 .. Len(view.excludedDates) :
                 /\ excludedDates'[i].date = view.excludedDates[i].date
                 /\ excludedDates'[i].comment =
                      IF view.excludedDates[i].date = iso THEN c
                      ELSE view.excludedDates[i].comment
            /\ view'.excludedDates = excludedDates'
            /\ targetDate' = targetDate
            /\ tasks' = tasks]_vars

C12_Witness ==
  /\ Len(excludedDates) = 2
  /\ excludedDates[1].comment = Undefined
  /\ excludedDates[2].comment \in CommentTexts
  /\ excludedDates[2].date \in LocalIsos
  /\ toggles = NoToggles

\* ------------------------------------------------------------------ persistence claims
\* Two optional dates name the same calendar date (or are both unset).
SameCalendarDate(a, b) ==
  IF a = Undefined \/ b = Undefined THEN a = b
  ELSE localDay(newDate(a)) = localDay(newDate(b))

\* Two task lists agree in ids, texts, completed flags and due calendar dates.
SameTasks(k, l) ==
  /\ Len(k) = Len(l)
  /\ \A i \in 1 .. Len(k) :
       /\ k[i].id = l[i].id
       /\ k[i].text = l[i].text
       /\ k[i].completed = l[i].completed
       /\ SameCalendarDate(k[i].dueDate, l[i].dueDate)

\* C13 (as claimed): the save payload built from the current state, applied with
\* applyRemoteData, gives back the same target date, the same excluded-dates list
\* and the same tasks (ids, texts, completed flags, due calendar dates).
C13_PayloadRoundTrip ==
  LET payload == firebasePayload(Closure(targetDate, excludedDates, tasks))
  IN  /\ SameCalendarDate(applyTarget(payload, targetDate), targetDate)
      /\ applyExcluded(payload, excludedDates) = excludedDates
      /\ SameTasks(applyTasks(payload, tasks), tasks)

\* A remote load settles without a document: none stored, the gist is gone, or
\* the read failed.
LoadComesBackEmpty ==
  \/ \E outcome \in {ReadMissing, ReadError} : LoadSettle(outcome) \/ GitHubLoadSettle(outcome)
  \/ GitHubLoadSettle(ReadNotFound)

\* C14: a remote load that fails or finds no document leaves target date,
\* excluded dates and tasks (and their stored items) as they were, raises nothing
\* (loadFromFirebase / loadFromGitHub come back with null), and the mounted page
\* still accepts a local mutation afterwards.
C14_FailedLoadKeepsState ==
  /\ [][LoadComesBackEmpty =>
          UNCHANGED << targetDate, excludedDates, tasks, storage, mounted, hasError >>]_vars
  /\ [](mounted => ENABLED (\E date \in SyncDates : SelectTargetDate(date)))

C14_Witness ==
  /\ variant = "firebase"
  /\ hasLoadedRemote
  /\ tasks = readList(JsonOf(<< Task(1, << "a" >>, FALSE, SyncIso) >>))
  /\ excludedDates = << >>
  /\ targetDate = LocalMidnight(SyncDay)
  /\ view.targetDate = targetDate
  /\ saveTimers # << >>

\* C15: a failed save changes neither the state nor the pending timer and starts
\* no save; once a save has failed, a further save is sent only after a change
\* of target date, excluded dates or tasks has scheduled it, and the mounted page
\* still accepts a mutation.
C15_NoAutomaticRetry ==
  /\ [][(\E i \in 1 .. Len(saves) : SaveSettle(i, FALSE)) =>
          /\ UNCHANGED << targetDate, excludedDates, tasks, storage, saveTimers >>
          /\ Len(saves') = Len(saves) - 1]_vars
  /\ [][(Len(saves') > Len(saves) /\ hist.lastSave = "failed") => hist.changed]_vars
  /\ []((mounted /\ hist.lastSave = "failed") =>
          ENABLED (\E date \in SyncDates : ToggleExclusion(date)))

C15_Witness ==
  /\ mounted
  /\ hist.lastSave = "failed"
  /\ Len(saves) = 1
  /\ storage.target = UndefinedText

\* C16 (as claimed): when a remote load or a remote save fails, the sync status
\* is set to the error state, which the render that follows shows.
C16_FailureShowsError ==
  [][(/\ mounted
      /\ variant = "firebase"
      /\ \/ LoadSettle(ReadError)
         \/ \E i \in 1 .. Len(saves) : SaveSettle(i, FALSE))
       => syncStatus' = "error"]_vars

\* A handler of the page has changed target date, excluded dates or tasks.
Mutation ==
  \/ \E date \in SyncDates : SelectTargetDate(date)
  \/ \E id \in SyncTaskIds, text \in TaskTexts \ {<< >>, << " " >>}, due \in SyncDates :
       AddTask(id, text, due)
  \/ Reset(TRUE)

\* C17: never more than one save timer is pending and it closes over the state
\* of the latest render; a mutation of target date, excluded dates or tasks
\* leaves no earlier timer pending, only the one for the state after it; a save
\* that is sent carries the state of the latest render and leaves no timer behind.
C17_OneDebouncedSave ==
  /\ [](/\ Len(saveTimers) <= 1
        /\ saveTimers # << >> =>
             saveTimers[1] = Closure(view.targetDate, view.excludedDates, view.tasks))
  /\ [][Mutation =>
          /\ saveTimers' \in {<< >>, << Closure(targetDate', excludedDates', tasks') >>}
          /\ view' = [targetDate |-> targetDate', excludedDates |-> excludedDates',
                      tasks |-> tasks', today |-> today', sync |-> FALSE]]_vars
  /\ [][Len(saves') > Len(saves) =>
          /\ saveTimers' = << >>
          /\ saves'[Len(saves')].payload =
               SavePayload(variant,
                           Closure(view.targetDate, view.excludedDates, view.tasks))]_vars

C17_Witness ==
  /\ hist.lastSave = "none"
  /\ Len(saves) = 1
  /\ saveTimers = << >>
  /\ storage.target = UndefinedText
  /\ storage.tasks = Absent
  /\ view.sync = FALSE
  /\ saves[1].payload = SavePayload(variant, Closure(targetDate, excludedDates, tasks))

\* C18 (as claimed): a remote load is issued only at startup, when none has been
\* issued before.
C18_LoadIssuedOnce ==
  [][loads' > loads => (loads = 0 /\ ~hasLoadedRemote)]_vars

\* C20: a declined reset leaves target date, excluded dates, tasks and their
\* stored items as they were; a confirmed reset leaves no target date, no
\* excluded dates and no tasks, in memory and as read back from localStorage.
C20_ResetNeedsConfirmation ==
  /\ [](LET c == Closure(targetDate, excludedDates, tasks)
        IN  /\ handleReset(FALSE, c) = c
            /\ resetAll(FALSE, c) = c)
  /\ [][Reset(FALSE) => UNCHANGED << targetDate, excludedDates, tasks, storage >>]_vars
  /\ [][Reset(TRUE) =>
          /\ targetDate' = Undefined
          /\ excludedDates' = << >>
          /\ tasks' = << >>
          /\ readTarget(storage'.target) = Undefined
          /\ readList(storage'.excluded) = << >>
          /\ readList(storage'.tasks) = << >>]_vars

C20_Witness ==
  /\ targetDate = Undefined
  /\ excludedDates = << >>
  /\ tasks = << >>
  /\ storage = [target |-> UndefinedText, excluded |-> JsonOf(<< >>), tasks |-> JsonOf(<< >>)]
  /\ toggles = NoToggles
  /\ hist.changed

\* ------------------------------------------------------------------ timer claims
\* C19: once Home is unmounted no interval, no one-shot 5 PM timer and no save
\* timer is left; while it is mounted at most one interval and at most one
\* one-shot timer are registered.
C19_NoLeakedTimers ==
  /\ ~mounted =>
       /\ timers.interval = 0
       /\ timers.timeout = 0
       /\ saveTimers = << >>
  /\ mounted =>
       /\ timers.interval <= 1
       /\ timers.timeout <= 1

C19_Witness ==
  /\ ~mounted
  /\ variant = "github"
  /\ githubToken
  /\ lastToday # Undefined
  /\ timers = [interval |-> 0, timeout |-> 0]

LoadPending == IF variant = "firebase" THEN ~hasLoadedRemote ELSE loads > 0

\* C24 (as claimed): while the startup load has not finished no save timer is
\* pending and no save is in flight; once it has finished, a change of target
\* date, excluded dates or tasks leaves a save timer pending for the new state.
C24_NoSaveBeforeLoad ==
  /\ []((mounted /\ LoadPending) => (saveTimers = << >> /\ saves = << >>))
  /\ [][(/\ mounted'
         /\ ~LoadPending
         /\ SyncEnabled(variant, hasLoadedRemote, githubToken)
         /\ << targetDate, excludedDates, tasks >>' # << targetDate, excludedDates, tasks >>)
        => saveTimers' = << Closure(targetDate', excludedDates', tasks') >>]_vars

\* C26: in the GitHub variant a load that settles replaces the target date only
\* when localStorage holds no target item, the excluded dates and the tasks only
\* when their item is missing or "[]"; a target date, a non-empty list of
\* excluded dates and a non-empty task list are kept, and nothing else changes
\* but the stored items of what was replaced (after an unmount the stored items
\* only, under the same conditions); a load that finds the gist gone applies
\* nothing and removes the stored gist id.
C26_LoadKeepsLocalData ==
  [][\A outcome \in GitHubOutcomes :
       GitHubLoadSettle(outcome) =>
         /\ targetDate' # targetDate => storage.target = Absent
         /\ excludedDates' # excludedDates => storage.excluded \in {Absent, JsonOf(<< >>)}
         /\ tasks' # tasks => storage.tasks \in {Absent, JsonOf(<< >>)}
         /\ targetDate # Undefined => targetDate' = targetDate
         /\ excludedDates # << >> => excludedDates' = excludedDates
         /\ tasks # << >> => tasks' = tasks
         /\ storage'.target # storage.target =>
              storage.target = Absent /\ (mounted => targetDate' # targetDate)
         /\ storage'.excluded # storage.excluded =>
              /\ storage.excluded \in {Absent, JsonOf(<< >>)}
              /\ mounted => excludedDates' # excludedDates
         /\ storage'.tasks # storage.tasks =>
              /\ storage.tasks \in {Absent, JsonOf(<< >>)}
              /\ mounted => tasks' # tasks
         /\ gistId' = IF outcome = ReadNotFound THEN 0 ELSE gistId
         /\ UNCHANGED << today, githubToken, mounted >>]_vars

C26_Witness ==
  /\ variant = "github"
  /\ githubToken
  /\ loads = 0
  /\ targetDate = SyncIso
  /\ excludedDates = FullDoc.excludedDates.items
  /\ tasks = readList(JsonOf(<< Task(1, << "a" >>, FALSE, SyncIso) >>))
  /\ storage.excluded = JsonOf(excludedDates)
  /\ toggles = NoToggles

\* ------------------------------------------------------------------ storage claims
\* A read of the item fails: localStorage throws, or JSON.parse rejects the text.
ReadFails(item) == fault = "denied" \/ item \in {Unparsable, UndefinedText}

\* C22 (as claimed): a hook whose read of localStorage failed starts from its
\* initial value (no target date, an empty list); a write that fails raises
\* nothing: the handler completes with the state set and the item left as it
\* was; and in no case does the page show the error screen.
C22_StorageFailuresHandled ==
  /\ ReadFails(storage.target) => targetDate = Undefined
  /\ ReadFails(storage.excluded) => excludedDates = << >>
  /\ ReadFails(storage.tasks) => tasks = << >>
  /\ [][fault # "none" => storage' = storage]_vars
  /\ [][\A date \in SyncDates :
          (SelectTargetDate(date) /\ fault # "none") =>
            (mounted' /\ targetDate' # targetDate)]_vars
  /\ [](~hasError)

\* ------------------------------------------------------------------ cloud claims
\* The remote document: the database's, or the content of the gist whose id is
\* stored; Null when there is none.
RemoteDocument ==
  IF variant = "firebase" THEN (IF remote = << >> THEN Null ELSE remote[1])
  ELSE IF gistId \in 1 .. Len(remote) THEN remote[gistId] ELSE Null

\* Sync is on, nothing has changed since the latest save was sent, no save timer
\* is pending, no save is in flight, and every save sent has succeeded.
SavesDone ==
  /\ SyncEnabled(variant, hasLoadedRemote, githubToken)
  /\ ~hist.changed
  /\ saveTimers = << >>
  /\ saves = << >>
  /\ hist.lastSave = "ok"
  /\ ~hist.failed

\* C25 (as claimed): once changes have stopped and every save sent has
\* succeeded, the remote document is the payload of the current state.
C25_RemoteIsLatestState ==
  SavesDone => RemoteDocument = SavePayload(variant, Closure(targetDate, excludedDates, tasks))

\* C27 (as claimed): for one stored token at most one gist is created: a save is
\* sent as a POST only when no gist was created for the token and no POST is in
\* flight, and with a gist id stored it is a PATCH of that gist.
C27_OneGistPerToken ==
  /\ []((variant = "github" /\ githubToken) => hist.created <= 1)
  /\ [][(variant = "github" /\ Len(saves') > Len(saves)) =>
          LET sent == saves'[Len(saves')]
          IN  /\ sent.gist = gistId
              /\ sent.gist = 0 => (hist.created = 0 /\ PostsInFlight(saves) = {})]_vars

\* C28 (as claimed): while no token is stored, no gist id is stored, no save
\* timer is pending and no request is sent, also when a save was in flight when
\* the token was removed.
C28_DisabledSyncStaysOff ==
  /\ []((variant = "github" /\ ~githubToken) => (gistId = 0 /\ saveTimers = << >>))
  /\ [][(variant = "github" /\ ~githubToken /\ ~githubToken') =>
          Len(saves') <= Len(saves)]_vars

\* ------------------------------------------------------------------ task claims
\* A text of blanks only (the empty text included).
IsBlank(text) == \A i \in 1 .. Len(text) : text[i] = " "

\* C21: no two tasks of the list have the same id, whatever tasks were added,
\* toggled or deleted, after a reset and after remote data was applied.
C21_TaskIdsUnique ==
  \A i, j \in 1 .. Len(tasks) : i # j => tasks[i].id # tasks[j].id

C21_Witness ==
  /\ variant = "firebase"
  /\ hasLoadedRemote
  /\ Len(tasks) = 2
  /\ tasks[1] = reviveTask(FullDoc.tasks.items[1])
  /\ tasks[2].id = 1
  /\ tasks[2].completed

\* C29 (the list a handler works on is the one the page shows, view.tasks; the
\* GitHub variant's render, which sorts it by due date, finds it in order):
\* toggling a task flips completed of the tasks with that id and changes
\* nothing else; deleting a task removes the tasks with that id and keeps the
\* others in their order; both leave target date and excluded dates alone, and
\* with an id no task has both return the list as it was.
C29_TaskToggleDeleteFrame ==
  /\ [](\A id \in TaskIds \ {t.id : t \in Range(tasks)} :
          /\ handleToggleTask(tasks, id) = tasks
          /\ toggleTask(tasks, id) = tasks
          /\ handleDeleteTask(tasks, id) = tasks
          /\ deleteTask(tasks, id) = tasks)
  /\ [][\A id \in TaskIds :
          ToggleTask(id) =>
            /\ Len(tasks') = Len(view.tasks)
            /\ \A i \in 1 .. Len(view.tasks) :
                 tasks'[i] = IF view.tasks[i].id = id
                             THEN Task(view.tasks[i].id, view.tasks[i].text,
                                       ~view.tasks[i].completed, view.tasks[i].dueDate)
                             ELSE view.tasks[i]
            /\ UNCHANGED << targetDate, excludedDates >>]_vars
  /\ [][\A id \in TaskIds :
          DeleteTask(id) =>
            /\ \A i \in 1 .. Len(tasks') : tasks'[i].id # id
            /\ Len(tasks') = Cardinality({i \in 1 .. Len(view.tasks) : view.tasks[i].id # id})
            /\ \A i \in 1 .. Len(view.tasks) :
                 view.tasks[i].id # id =>
                   tasks'[Cardinality({j \in 1 .. i : view.tasks[j].id # id})] = view.tasks[i]
            /\ UNCHANGED << targetDate, excludedDates >>]_vars

C29_Witness ==
  /\ variant = "firebase"
  /\ tasks = << Task(2, << "a" >>, FALSE, toISOString(LocalMidnight(SyncDay + 1))),
                Task(3, << "a" >>, FALSE, SyncIso) >>
  /\ view.tasks = tasks
  /\ storage.tasks = stringifyTasks(tasks)
  /\ hist.changed
  /\ targetDate # Undefined

\* C30: no task of the list has a blank text; submitting an empty or all-blank
\* text leaves the list, its stored item and the page as they were; a task that
\* is added has the text as typed and completed = false and joins the tasks the
\* page shows, which keep their order: at the end of the list in the Firebase
\* variant, at its place by due date in the GitHub variant, whose render sorts
\* the list.
C30_NoBlankTasks ==
  /\ [](\A i \in 1 .. Len(tasks) : ~IsBlank(tasks[i].text))
  /\ [][\A id \in TaskIds, text \in TaskTexts, due \in DueDates :
          AddTask(id, text, due) =>
            IF IsBlank(text) THEN UNCHANGED << tasks, storage, view >>
            ELSE \E n \in 1 .. Len(tasks') :
                   /\ tasks'[n] = Task(id, text, FALSE, due)
                   /\ SubSeq(tasks', 1, n - 1) \o SubSeq(tasks', n + 1, Len(tasks'))
                        = view.tasks
                   /\ variant = "firebase" => n = Len(tasks')
                   /\ variant = "github" =>
                        /\ \A i \in 1 .. (n - 1) : taskOrder(tasks'[i], tasks'[n]) <= 0
                        /\ \A i \in (n + 1) .. Len(tasks') :
                             taskOrder(tasks'[i], tasks'[n]) > 0
                   /\ storage'.tasks = stringifyTasks(Append(view.tasks, tasks'[n]))]_vars

C30_Witness ==
  /\ variant = "github"
  /\ tasks = << Task(2, << "a" >>, FALSE, LocalMidnight(FirstDay + 2)),
                Task(1, << "a" >>, FALSE, Undefined) >>
  /\ view.tasks = tasks
  /\ storage.tasks = stringifyTasks(<< tasks[2], tasks[1] >>)
  /\ hist.changed

====
